---- MODULE Spec2Model ----
(***************************************************************************)
(* Verification model of the stack-graphs repository:                      *)
(*   - stack-graphs/src/stats.rs          FrequencyDistribution           *)
(*   - tree-sitter-stack-graphs/src/cli/query.rs   Querier::definitions   *)
(* The forward partial-path stitcher, partial paths and their shadowing    *)
(* relation (stack-graphs/src/stitching.rs, partial.rs) are modelled as    *)
(* spec.md describes them (sections 3, 4.3, 4.4, 5).                       *)
(***************************************************************************)
EXTENDS Integers, Sequences, FiniteSets, TLC

VARIABLES
    fd,         \* the FrequencyDistribution objects: name -> [values, total]
    added,      \* history: name -> bag of the values added so far (value -> times)
    last,       \* the last operation called on them, with what it returned
    input,      \* Querier::definitions: the database, file status, nodes at the position
    flag,       \* the CancellationFlag: TRUE once it has tripped
    observed,   \* history: the location of the poll that saw the flag set ("" if none)
    pc,         \* position of Querier::definitions
    reports,    \* the calls made on the Reporter, in order
    loc,        \* the locals of Querier::definitions
    stitcher,   \* the queues of the running ForwardPartialPathStitcher
    ref_result, \* what find_all_complete_partial_paths returned
    outcome,    \* what Querier::definitions returned
    printed,    \* Definition::run: the summary line printed for each QueryResult
    concat,     \* three partial paths and their concatenations in both groupings
    db,         \* a Database being filled from one file, and the last lookup in it
    test_args,  \* TestArgs: the options of the test command
    test_run,   \* TestArgs::run: paths visited, total_result, what run returned
    test_pc,    \* position of TestArgs::run and run_test_inner
    test        \* run_test_inner: the test path, its locals and its effects

statsVars == <<fd, added, last>>

queryVars ==
    <<input, flag, observed, pc, reports, loc, stitcher, ref_result, outcome, printed>>

\* The variables of the library operations exercised on their own.
libVars == <<concat, db>>

testVars == <<test_args, test_run, test_pc, test>>

vars == <<fd, added, last, input, flag, observed, pc, reports, loc, stitcher,
          ref_result, outcome, printed, concat, db, test_args, test_run, test_pc,
          test>>

(***************************************************************************)
(* Bounds of the model.                                                    *)
(***************************************************************************)
MaxTotal == 6

MaxQ == 4

\* The values T ranges over (usize samples; Ord is <=).
Values == {1, 2, 5}

\* The distributions alive in the model: `a += &b` needs two.
Dists == {"a", "b"}

(***************************************************************************)
(* stats.rs: FrequencyDistribution<T>                                      *)
(***************************************************************************)

\* HashMap<T, usize>: a function whose domain is the set of keys present.
EmptyMap == [v \in {} |-> 0]

\* #[derive(Default)]: empty map, total 0.
DefaultDist == [values |-> EmptyMap, total |-> 0]

\* values.entry(key).or_default(): the stored count, 0 when the key is absent.
EntryOrDefault(values, key) == IF key \in DOMAIN values THEN values[key] ELSE 0

\* *values.entry(key).or_default() += n
EntryAdd(values, key, n) ==
    [v \in (DOMAIN values) \cup {key} |->
        IF v = key THEN EntryOrDefault(values, key) + n ELSE values[v]]

total(d) == d.total

unique(d) == Cardinality(DOMAIN d.values)

\* add_assign(rhs: T) with the total left alone (a forgotten `self.total += 1`).
AddValueNoTotal(d, rhs) ==
    [values |-> EntryAdd(d.values, rhs, 1), total |-> d.total]

\* impl AddAssign<T>: self += value
AddValue(d, rhs) ==
    [values |-> EntryAdd(d.values, rhs, 1), total |-> d.total + 1]

\* for (value, count) in &rhs.values { *self.values.entry(value).or_default() += count }
RECURSIVE MergeEntries(_, _, _)
MergeEntries(values, rhsValues, todo) ==
    IF todo = {} THEN values
    ELSE LET value == CHOOSE v \in todo : TRUE
         IN  MergeEntries(EntryAdd(values, value, rhsValues[value]),
                          rhsValues, todo \ {value})

\* add_assign(rhs: &Self) storing rhs's counts in place of adding them.
MergeDistOverwrite(d, rhs) ==
    [values |-> [v \in (DOMAIN d.values) \cup (DOMAIN rhs.values) |->
                    IF v \in DOMAIN rhs.values THEN rhs.values[v] ELSE d.values[v]],
     total  |-> d.total + rhs.total]

\* impl AddAssign<&Self>: self += &rhs
MergeDist(d, rhs) ==
    [values |-> MergeEntries(d.values, rhs.values, DOMAIN rhs.values),
     total  |-> d.total + rhs.total]

\* self.values.iter() in HashMap order, without the sort: some order of the keys.
RECURSIVE UnsortedKeys(_)
UnsortedKeys(S) ==
    IF S = {} THEN <<>>
    ELSE LET m == CHOOSE x \in S : \A y \in S : x >= y
         IN  <<m>> \o UnsortedKeys(S \ {m})

\* self.values.iter().sorted_by_key(|e| e.0): the keys in ascending order
\* (each key stands for its (value, count) entry).
RECURSIVE SortedKeys(_)
SortedKeys(S) ==
    IF S = {} THEN <<>>
    ELSE LET m == CHOOSE x \in S : \A y \in S : x <= y
         IN  <<m>> \o SortedKeys(S \ {m})

\* f64::round on a non-negative quotient n/d: half rounds away from zero.
RoundDiv(n, d) == (2 * n + d) \div (2 * d)

\* The limit with the quotient truncated instead of rounded.
LimitTruncated(tot, k, q) == (tot * k) \div q

\* let limit = ((self.total as f64 * k as f64) / q as f64).round() as usize
Limit(tot, k, q) == RoundDiv(tot * k, q)

\* The iterator state of the walk: entries consumed, running count, last value.
WalkState(pos, count, value) ==
    [pos |-> pos, total_count |-> count, last_value |-> value]

\* it.next() taken once: Some((value, count)) advances, None leaves the state.
NextEntry(values, entries, st) ==
    IF st.pos < Len(entries)
    THEN WalkState(st.pos + 1,
                   st.total_count + values[entries[st.pos + 1]],
                   entries[st.pos + 1])
    ELSE st

\* The inner loop written as `if total_count < limit` (one step at most).
AdvanceOnce(values, entries, st, limit) ==
    IF st.total_count < limit THEN NextEntry(values, entries, st) ELSE st

\* The inner loop written with `<=` in place of `<`.
RECURSIVE AdvanceInclusive(_, _, _, _)
AdvanceInclusive(values, entries, st, limit) ==
    IF st.total_count <= limit /\ st.pos < Len(entries)
    THEN AdvanceInclusive(values, entries, NextEntry(values, entries, st), limit)
    ELSE st

\* while total_count < limit { if let Some(..) = it.next() {..} else { break } }
RECURSIVE Advance(_, _, _, _)
Advance(values, entries, st, limit) ==
    IF st.total_count < limit /\ st.pos < Len(entries)
    THEN Advance(values, entries, NextEntry(values, entries, st), limit)
    ELSE st

\* for k in 1..=q { limit; while ..; result.push(last_value) }
RECURSIVE QuantileLoop(_, _, _, _, _, _, _)
QuantileLoop(values, entries, tot, q, k, st, result) ==
    IF k > q THEN result
    ELSE LET st2 == Advance(values, entries, st, Limit(tot, k, q))
         IN  QuantileLoop(values, entries, tot, q, k + 1, st2,
                          Append(result, st2.last_value))

\* The loop run over 1..q (exclusive upper end).
QuantilesExclusive(d, q) ==
    IF q = 0 \/ d.total = 0 THEN <<>>
    ELSE LET entries == SortedKeys(DOMAIN d.values)
         IN  IF Len(entries) = 0 THEN <<>>
             ELSE LET first == WalkState(1, d.values[entries[1]], entries[1])
                  IN  QuantileLoop(d.values, entries, d.total, q - 1, 1, first,
                                   <<first.last_value>>)

\* pub fn quantiles(&self, q: usize) -> Vec<&T>
quantiles(d, q) ==
    IF q = 0 \/ d.total = 0 THEN <<>>
    ELSE LET entries == SortedKeys(DOMAIN d.values)
         IN  IF Len(entries) = 0 THEN <<>>
             ELSE LET first == WalkState(1, d.values[entries[1]], entries[1])
                  IN  QuantileLoop(d.values, entries, d.total, q, 1, first,
                                   <<first.last_value>>)

(***************************************************************************)
(* query.rs: QueryArgs::print_stats, the row of one metric                 *)
(***************************************************************************)
\* hist.quantiles(4)
QuartileCount == 4

\* format!("{:>7}", x): right-aligned in a field of 7 columns, never truncated.
RECURSIVE PadLeft(_)
PadLeft(s) == IF Len(s) >= 7 THEN s ELSE PadLeft(" " \o s)

\* Display of a usize.
Display(x) == ToString(x)

\* qs[i] on a Vec, 0-based: the element, or a panic when i is out of bounds.
Index(qs, i) ==
    IF i < Len(qs) THEN [panicked |-> FALSE, value |-> qs[i + 1]]
    ELSE [panicked |-> TRUE, value |-> 0]

\* The cells of a row: a panic in any argument of format! leaves no row.
Row(args, tot) ==
    IF \E i \in 1..Len(args) : args[i].panicked
    THEN [panicked |-> TRUE, cells |-> <<>>]
    ELSE [panicked |-> FALSE,
          cells |-> [i \in 1..(Len(args) + 1) |->
                        IF i <= Len(args) THEN PadLeft(Display(args[i].value))
                        ELSE PadLeft(Display(tot))]]

\* quartiles() without its is_empty branch: qs[0..4] is read whatever qs holds.
quartilesUnguarded(hist) ==
    LET qs == quantiles(hist, QuartileCount)
    IN  Row([i \in 1..5 |-> Index(qs, i - 1)], total(hist))

\* fn quartiles(hist: FrequencyDistribution<X>) -> String
quartiles(hist) ==
    LET qs == quantiles(hist, QuartileCount)
    IN  IF Len(qs) = 0
        THEN [panicked |-> FALSE,
              cells |-> <<PadLeft("-"), PadLeft("-"), PadLeft("-"), PadLeft("-"),
                          PadLeft("-"), PadLeft(Display(0))>>]
        ELSE Row([i \in 1..5 |-> Index(qs, i - 1)], total(hist))

(***************************************************************************)
(* Stack graph, partial paths, concatenation and shadowing                 *)
(* (spec.md sections 3, 4.3, 4.4).  Scoped symbols carry no attached scope *)
(* stack in this model, and a path has one symbol-stack variable and one   *)
(* scope-stack variable at most, so a variable is a flag on the stack.     *)
(***************************************************************************)

\* The nodes of the graph the database was built from.
Nodes == {"root", "r1", "r2", "s1", "d1", "d2", "d3"}

Kind(n) ==
    CASE n = "root" -> "root"
      [] n \in {"r1", "r2"} -> "reference"
      [] n = "s1" -> "scope"
      [] n \in {"d1", "d2", "d3"} -> "definition"

is_reference(n) == Kind(n) = "reference"

is_definition(n) == Kind(n) = "definition"

\* graph[n].id().file(): the file of a node, "" for the root node.
FileOf(n) ==
    CASE n = "root" -> ""
      [] n \in {"r1", "r2", "s1", "d1"} -> "a.rs"
      [] n \in {"d2", "d3"} -> "b.rs"

\* A partial stack: concrete elements, then possibly a stack variable.
Stack(elems, hasVar) == [syms |-> elems, var |-> hasVar]

EmptyStack == Stack(<<>>, FALSE)

VarStack == Stack(<<>>, TRUE)

Edge(source, sink, precedence) ==
    [source |-> source, sink |-> sink, precedence |-> precedence]

PartialPath(start, end, symPre, symPost, scopePre, scopePost, edges) ==
    [start_node |-> start, end_node |-> end,
     symbol_stack_precondition |-> symPre, symbol_stack_postcondition |-> symPost,
     scope_stack_precondition |-> scopePre, scope_stack_postcondition |-> scopePost,
     edges |-> edges]

\* The trivial one-node partial path with empty stacks.
TrivialPath(n) ==
    PartialPath(n, n, EmptyStack, EmptyStack, EmptyStack, EmptyStack, <<>>)

\* The partial paths the indexed files can contribute to the database.
\*   r1 pushes x, r2 pushes y; d1 and d2 define x, d3 defines y.
LocalLow ==
    PartialPath("r1", "d1", VarStack, VarStack, VarStack, VarStack,
                <<Edge("r1", "s1", 0), Edge("s1", "d1", 0)>>)

LocalHigh ==
    PartialPath("r1", "d1", VarStack, VarStack, VarStack, VarStack,
                <<Edge("r1", "d1", 1)>>)

ExportX ==
    PartialPath("r1", "root", VarStack, Stack(<<"x">>, TRUE), VarStack, VarStack,
                <<Edge("r1", "root", 0)>>)

ExportY ==
    PartialPath("r2", "root", VarStack, Stack(<<"y">>, TRUE), VarStack, VarStack,
                <<Edge("r2", "root", 0)>>)

ImportX ==
    PartialPath("root", "d2", Stack(<<"x">>, TRUE), VarStack, VarStack, VarStack,
                <<Edge("root", "d2", 0)>>)

ImportXScoped ==
    PartialPath("root", "d2", Stack(<<"x">>, TRUE), VarStack,
                VarStack, Stack(<<"s1">>, TRUE),
                <<Edge("root", "s1", 1), Edge("s1", "d2", 0)>>)

ImportY ==
    PartialPath("root", "d3", Stack(<<"y">>, TRUE), VarStack, VarStack, VarStack,
                <<Edge("root", "d3", 0)>>)

PathUniverse ==
    {LocalLow, LocalHigh, ExportX, ExportY, ImportX, ImportXScoped, ImportY}

\* Unification of a postcondition A.$X with a precondition B.$Z (4.3 step 2):
\* the longer concrete prefix must equal the shorter, whose variable binds to
\* the remainder.  Gives what $X and $Z are bound to; a variable the unified
\* condition does not mention stays as it is.
Identity == Stack(<<>>, TRUE)

Unify(A, B) ==
    LET la == Len(A.syms)
        lb == Len(B.syms)
        m  == IF la < lb THEN la ELSE lb
    IN  IF SubSeq(A.syms, 1, m) # SubSeq(B.syms, 1, m)
        THEN [ok |-> FALSE]
        ELSE IF la < lb
        THEN IF A.var
             THEN [ok |-> TRUE, lhs |-> Stack(SubSeq(B.syms, la + 1, lb), B.var),
                   rhs |-> Identity]
             ELSE [ok |-> FALSE]
        ELSE IF la > lb
        THEN IF B.var
             THEN [ok |-> TRUE, lhs |-> Identity,
                   rhs |-> Stack(SubSeq(A.syms, lb + 1, la), A.var)]
             ELSE [ok |-> FALSE]
        ELSE [ok |-> TRUE,
              lhs |-> IF A.var THEN Stack(<<>>, B.var) ELSE Identity,
              rhs |-> IF B.var THEN Stack(<<>>, A.var) ELSE Identity]

\* The substitution with the bound remainder put before the concrete prefix.
SubstitutePrepend(stack, binding) ==
    IF stack.var THEN Stack(binding.syms \o stack.syms, binding.var) ELSE stack

\* Applying a substitution to a stack (4.3 step 3).
Substitute(stack, binding) ==
    IF stack.var THEN Stack(stack.syms \o binding.syms, binding.var) ELSE stack

\* P o Q (4.3): fails with EndpointMismatch, SymbolStackMismatch or
\* ScopeStackMismatch.
Concatenate(P, Q) ==
    LET sym   == Unify(P.symbol_stack_postcondition, Q.symbol_stack_precondition)
        scope == Unify(P.scope_stack_postcondition, Q.scope_stack_precondition)
    IN  IF P.end_node # Q.start_node THEN [ok |-> FALSE, error |-> "EndpointMismatch"]
        ELSE IF ~sym.ok THEN [ok |-> FALSE, error |-> "SymbolStackMismatch"]
        ELSE IF ~scope.ok THEN [ok |-> FALSE, error |-> "ScopeStackMismatch"]
        ELSE [ok |-> TRUE,
              path |-> PartialPath(
                  P.start_node, Q.end_node,
                  Substitute(P.symbol_stack_precondition, sym.lhs),
                  Substitute(Q.symbol_stack_postcondition, sym.rhs),
                  Substitute(P.scope_stack_precondition, scope.lhs),
                  Substitute(Q.scope_stack_postcondition, scope.rhs),
                  P.edges \o Q.edges)]

\* A check of completeness that leaves the scope stack out.
IsCompleteNoScope(p) ==
    /\ is_reference(p.start_node)
    /\ is_definition(p.end_node)
    /\ p.symbol_stack_precondition = EmptyStack

\* A path is complete iff it starts at a reference, ends at a definition, its
\* symbol-stack precondition is empty with no variable and its scope-stack
\* postcondition is empty (section 3).
IsComplete(p) ==
    /\ is_reference(p.start_node)
    /\ is_definition(p.end_node)
    /\ p.symbol_stack_precondition = EmptyStack
    /\ p.scope_stack_postcondition.syms = <<>>

\* Lexicographic order on edge lists by precedence: strictly lower.
RECURSIVE LexLower(_, _)
LexLower(e1, e2) ==
    IF e2 = <<>> THEN FALSE
    ELSE IF e1 = <<>> THEN TRUE
    ELSE IF e1[1].precedence # e2[1].precedence
         THEN e1[1].precedence < e2[1].precedence
         ELSE LexLower(Tail(e1), Tail(e2))

\* P shadows Q (4.4): same endpoints, strictly lower edge precedence, and
\* equivalent stack pre- and postconditions.
shadows(P, Q) ==
    /\ P.start_node = Q.start_node
    /\ P.end_node = Q.end_node
    /\ LexLower(P.edges, Q.edges)
    /\ P.symbol_stack_precondition = Q.symbol_stack_precondition
    /\ P.symbol_stack_postcondition = Q.symbol_stack_postcondition
    /\ P.scope_stack_precondition = Q.scope_stack_precondition
    /\ P.scope_stack_postcondition = Q.scope_stack_postcondition

\* Database: the candidates for extending a path are the partial paths that
\* start at its end node (4.4, 4.6 by-node / by-root).
Candidates(database, p) == {c \in database : c.start_node = p.end_node}

\* Option<T>
None == [some |-> FALSE]

Some(v) == [some |-> TRUE, value |-> v]

\* Database::new(): both indexes empty (4.6).
NewDatabase == [by_node |-> [n \in {} |-> {}], by_root_symbol |-> [k \in {} |-> {}]]

\* The paths stored under a key of an index, none when the key is absent.
Stored(index, key) == IF key \in DOMAIN index THEN index[key] ELSE {}

\* The index with one more path under a key; a duplicate is coalesced.
Insert(index, key, path) ==
    [k \in (DOMAIN index) \cup {key} |->
        IF k = key THEN Stored(index, key) \cup {path} ELSE index[k]]

\* The symbol a root-anchored path is indexed by: the symbol of its
\* symbol-stack precondition that the path consumes first.
RootSymbol(path) == path.symbol_stack_precondition.syms[1]

\* add_partial_path: by-node for a non-root start node, by-root-symbol for
\* the root node (4.6).
add_partial_path(database, path) ==
    IF path.start_node = "root"
    THEN [database EXCEPT !.by_root_symbol = Insert(@, RootSymbol(path), path)]
    ELSE [database EXCEPT !.by_node = Insert(@, path.start_node, path)]

\* All root-anchored paths of the database.
RootPaths(database) ==
    UNION {database.by_root_symbol[k] : k \in DOMAIN database.by_root_symbol}

\* A lookup from the root that takes no account of the symbol stack.
find_candidate_partial_paths_from_root_any(database, symbol_stack) ==
    RootPaths(database)

\* find_candidate_partial_paths_from_root(symbol_stack, out): with a stack,
\* the paths indexed by a symbol that unifies with the symbol the stack
\* begins with; without one, all root-anchored paths (4.6).
find_candidate_partial_paths_from_root(database, symbol_stack) ==
    IF symbol_stack = None THEN RootPaths(database)
    ELSE IF symbol_stack.value.syms = <<>> THEN {}
    ELSE UNION {database.by_root_symbol[k] :
                   k \in {j \in DOMAIN database.by_root_symbol :
                             Unify(Stack(<<j>>, FALSE),
                                   Stack(<<symbol_stack.value.syms[1]>>, FALSE)).ok}}

(***************************************************************************)
(* Forward partial-path stitcher in complete-path mode (spec.md 4.4, 5).   *)
(***************************************************************************)

\* StitchingStats::default(): empty frequency distributions.
DefaultStats ==
    [queued_paths_per_phase |-> DefaultDist,
     processed_paths_per_phase |-> DefaultDist]

\* stats += &ref_stats: the distributions are merged field by field.
StatsMerge(stats, other) ==
    [queued_paths_per_phase |->
        MergeDist(stats.queued_paths_per_phase, other.queued_paths_per_phase),
     processed_paths_per_phase |->
        MergeDist(stats.processed_paths_per_phase, other.processed_paths_per_phase)]

\* The location string the stitcher gives its polls of the CancellationFlag.
StitchLocation == "stitching"

IdleStitcher ==
    [queued |-> <<>>, next_phase |-> <<>>, seen |-> {}, phase |-> 0,
     processed |-> 0, stats |-> DefaultStats]

\* Seeds of complete-path mode: single-node partial paths at reference nodes.
Seeds(nodes) ==
    SelectSeq([i \in 1..Len(nodes) |-> TrivialPath(nodes[i])],
              LAMBDA p : is_reference(p.start_node))

NewStitcher(nodes) ==
    [IdleStitcher EXCEPT !.queued = Seeds(nodes),
                         !.seen = {Seeds(nodes)[i] : i \in 1..Len(Seeds(nodes))}]

\* The orders in which a set of candidates may be handed to the stitcher.
Orders(S) ==
    {o \in [1..Cardinality(S) -> S] : \A i, j \in 1..Cardinality(S) : o[i] = o[j] => i = j}

\* Extending path p by the candidates in the given order: an incompatible
\* candidate is discarded silently (section 7); with detect_similar_paths a
\* path shadowed by one already seen is discarded before enqueueing.
RECURSIVE Extend(_, _, _, _)
Extend(st, p, cands, detect) ==
    IF cands = <<>> THEN st
    ELSE LET r == Concatenate(p, Head(cands))
         IN  IF ~r.ok THEN Extend(st, p, Tail(cands), detect)
             ELSE IF detect /\ \E o \in st.seen : shadows(o, r.path)
             THEN Extend(st, p, Tail(cands), detect)
             ELSE Extend([st EXCEPT !.next_phase = Append(@, r.path),
                                    !.seen = @ \cup {r.path}],
                         p, Tail(cands), detect)

\* A phase boundary taken as soon as the phase has produced a path.
PhaseDrainedEarly(st) == st.next_phase # <<>>

\* The phase has drained queued: every path of the current depth is processed.
PhaseDrained(st) == st.queued = <<>>

\* The complete paths among those produced by the phase that just ended.
CompletePaths(paths) == SelectSeq(paths, IsComplete)

(***************************************************************************)
(* cli/query.rs: Querier::definitions                                      *)
(***************************************************************************)

Ok(value, stats) == [kind |-> "Ok", result |-> value, stats |-> stats]

Err(error) == [kind |-> "Err", error |-> error]

NoOutcome == [kind |-> "none"]

\* stack_graphs::CancellationError / crate::CancellationError (the location).
CancellationError(at) == [at |-> at]

\* From<CancellationError> that loses the location.
CancelledNowhere(e) == [type |-> "Cancelled", at |-> ""]

\* impl From<CancellationError> for QueryError: Self::Cancelled(value.0)
Cancelled(e) == [type |-> "Cancelled", at |-> e.at]

\* impl From<StorageError> for QueryError (#[from])
StorageError == [type |-> "StorageError"]

\* Reporter calls.
Started == [kind |-> "started"]

Failed(msg) == [kind |-> "failed", msg |-> msg]

CancelledReport(msg) == [kind |-> "cancelled", msg |-> msg]

Succeeded(count, references) ==
    [kind |-> "succeeded", definitions |-> count, references |-> references]

\* |_g, _ps, p| { reference_paths.push(p.clone()) }
EmitCallback(reference_paths, p) == Append(reference_paths, p)

RECURSIVE EmitAll(_, _)
EmitAll(reference_paths, paths) ==
    IF paths = <<>> THEN reference_paths
    ELSE EmitAll(EmitCallback(reference_paths, Head(paths)), Tail(paths))

\* The filter with the receiver and the argument of shadows exchanged.
IsActualSwapped(reference_paths, reference_path) ==
    \A i \in 1..Len(reference_paths) : ~shadows(reference_path, reference_paths[i])

\* reference_paths.iter().all(|other| !other.shadows(partials, reference_path))
IsActual(reference_paths, reference_path) ==
    \A i \in 1..Len(reference_paths) : ~shadows(reference_paths[i], reference_path)

SourceSpan(path, span) == [path |-> path, span |-> span]

\* The closure of filter_map: the span of path.end_node, None when the node
\* has no source info or no file.  A span is named by the node it belongs to.
DefinitionSpan(path, graph) ==
    IF path.end_node \notin graph.source_info THEN None
    ELSE IF FileOf(path.end_node) = "" THEN None
    ELSE Some(SourceSpan(FileOf(path.end_node), path.end_node))

\* actual_paths.into_iter().filter_map(..).collect::<Vec<_>>()
RECURSIVE FilterMapDefinitions(_, _)
FilterMapDefinitions(actual_paths, graph) ==
    IF actual_paths = <<>> THEN <<>>
    ELSE LET d == DefinitionSpan(Head(actual_paths), graph)
             rest == FilterMapDefinitions(Tail(actual_paths), graph)
         IN  IF d.some THEN <<d.value>> \o rest ELSE rest

QueryResult(source, targets) == [source |-> source, targets |-> targets]

\* result.push(..) that leaves out a reference with no definition.
PushResultNonEmpty(result, node, definitions) ==
    IF definitions = <<>> THEN result
    ELSE Append(result, QueryResult(SourceSpan("a.rs", node), definitions))

\* result.push(QueryResult { source: reference_span, targets: definitions })
PushResult(result, node, definitions) ==
    Append(result, QueryResult(SourceSpan("a.rs", node), definitions))

\* result.iter().map(|r| r.targets.len()).sum()
RECURSIVE CountTargets(_)
CountTargets(result) ==
    IF result = <<>> THEN 0 ELSE Len(Head(result).targets) + CountTargets(Tail(result))

\* Definition::run: match definitions.len() { 0 => .., 1 => .., n => .. }
\* (the line for n definitions is kept without its number).
DefinitionsLine(n) ==
    CASE n = 0 -> "has no definitions"
      [] n = 1 -> "has definition"
      [] OTHER -> "has n definitions"

NewLocals ==
    [ni |-> 1, si |-> 1, reference_paths |-> <<>>, actual_paths |-> <<>>,
     result |-> <<>>, stats |-> DefaultStats]

(***************************************************************************)
(* State machine of the statistics objects.                                *)
(***************************************************************************)
NoCall == [name |-> "none"]

EmptyBag == [v \in Values |-> 0]

\* TestResult::new(): no assertion has succeeded or failed.
NewTestResult == [success_count |-> 0, failure_count |-> 0]

\* CLIFileReporter::new: nothing signalled for the file yet.
NewFileStatus == [state |-> "new", reports |-> <<>>]

\* The locals of run_test_inner before its first statement, with the
\* effects the test has had: the build calls made, the stitcher invocations
\* with their configuration, whether the assertions ran, the files saved.
NewTest(path) ==
    [path |-> path, load_path |-> <<>>, lc |-> None, graph |-> <<>>,
     fragments |-> <<>>, fi |-> 1, built |-> 0, stitched |-> <<>>,
     assertions_run |-> FALSE, result |-> NewTestResult, saved |-> {},
     outputs |-> <<>>, file_status |-> NewFileStatus, ret |-> NoOutcome]

\* The locals of TestArgs::run before its loop: the number of test paths the
\* iterator has yielded, total_result, the TestResult each run_test returned
\* (in the order of the paths), and what run returns.
NewRun ==
    [index |-> 0, total_result |-> NewTestResult, results |-> <<>>,
     outcome |-> NoOutcome]

\* No test command is running.
TestIdle ==
    /\ test_args = [output_mode |-> "OnFailure", no_builtins |-> FALSE,
                    save_graph |-> FALSE, save_paths |-> FALSE,
                    save_visualization |-> FALSE, quiet |-> FALSE,
                    max_test_time |-> FALSE, test_paths |-> 0]
    /\ test_run = NewRun
    /\ test_pc = "idle"
    /\ test = NewTest(<<>>)

\* No concatenation is being exercised.
ConcatIdle ==
    concat = [P |-> TrivialPath("root"), Q |-> TrivialPath("root"),
              R |-> TrivialPath("root"), pc |-> "idle",
              left |-> NoOutcome, right |-> NoOutcome]

\* No database is being exercised.
DbIdle ==
    db = [file |-> "", todo |-> {}, database |-> NewDatabase,
          symbol_stack |-> None, results |-> {}, pc |-> "idle"]

\* No library operation is being exercised.
LibIdle == ConcatIdle /\ DbIdle

\* No query is running.
QueryIdle ==
    /\ input = [database |-> {}, file_status |-> "Missing", starting_nodes |-> <<>>,
                source_info |-> {}, detect_similar_paths |-> FALSE,
                stitcher_config |-> [detect_similar_paths |-> FALSE]]
    /\ flag = FALSE
    /\ observed = ""
    /\ pc = "idle"
    /\ reports = <<>>
    /\ loc = NewLocals
    /\ stitcher = IdleStitcher
    /\ ref_result = NoOutcome
    /\ outcome = NoOutcome
    /\ printed = <<>>

\* No statistics object has been touched.
StatsIdle ==
    /\ fd = [n \in Dists |-> DefaultDist]
    /\ added = [n \in Dists |-> EmptyBag]
    /\ last = NoCall

StatsInit == StatsIdle /\ QueryIdle /\ LibIdle /\ TestIdle

\* d += value
Add(n, v) ==
    /\ fd[n].total < MaxTotal
    /\ fd' = [fd EXCEPT ![n] = AddValue(fd[n], v)]
    /\ added' = [added EXCEPT ![n] = [@ EXCEPT ![v] = @ + 1]]
    /\ last' = [name |-> "add", dist |-> n, value |-> v]
    /\ UNCHANGED <<queryVars, libVars, testVars>>

\* d += &e  (two distinct objects: &mut self and &Self cannot alias).
Merge(n, m) ==
    /\ n # m
    /\ fd[n].total + fd[m].total <= MaxTotal
    /\ fd' = [fd EXCEPT ![n] = MergeDist(fd[n], fd[m])]
    /\ added' = [added EXCEPT ![n] = [v \in Values |-> added[n][v] + added[m][v]]]
    /\ last' = [name |-> "merge", dist |-> n, other |-> m]
    /\ UNCHANGED <<queryVars, libVars, testVars>>

\* let qs = d.quantiles(q)
Quantiles(n, q) ==
    /\ last' = [name |-> "quantiles", dist |-> n, q |-> q, res |-> quantiles(fd[n], q)]
    /\ UNCHANGED <<fd, added>>
    /\ UNCHANGED <<queryVars, libVars, testVars>>

\* println!(" ... | {} ", quartiles(d)): one metric row of the report.
PrintRow(n) ==
    /\ last' = [name |-> "quartiles", dist |-> n, row |-> quartiles(fd[n])]
    /\ UNCHANGED <<fd, added>>
    /\ UNCHANGED <<queryVars, libVars, testVars>>

StatsNext ==
    \/ \E n \in Dists, v \in Values : Add(n, v)
    \/ \E n \in Dists, m \in Dists : Merge(n, m)
    \/ \E n \in Dists, q \in 0..MaxQ : Quantiles(n, q)
    \/ \E n \in Dists : PrintRow(n)

SpecStats == StatsInit /\ [][StatsNext]_vars

(***************************************************************************)
(* State machine of one call of Querier::definitions.                      *)
(***************************************************************************)
Definitions == {n \in Nodes : is_definition(n)}

References == {n \in Nodes : is_reference(n)}

\* What a call can meet: any database over the path universe, any file
\* status, the reference nodes at the queried position (iter_references),
\* which definition nodes have source info, the stitcher's default
\* setting of similar-path detection, and the StitcherConfig of the language
\* configuration of the queried file (lc.stitcher_config in test.rs).
QueryInputs ==
    [database : SUBSET PathUniverse,
     file_status : {"Indexed", "Missing", "Outdated"},
     starting_nodes : {<<>>, <<"r1">>, <<"r2">>, <<"r1", "r2">>},
     source_info : {Definitions, Definitions \ {"d2"}},
     detect_similar_paths : BOOLEAN,
     stitcher_config : [detect_similar_paths : BOOLEAN]]

\* The configuration the stitcher of Querier::definitions runs with: the call
\* passes the database, the node, the flag and the callback, and no
\* StitcherConfig, and definitions() has no parameter to receive one.
QueryStitcherConfig == [detect_similar_paths |-> input.detect_similar_paths]

QueryInit ==
    /\ StatsIdle
    /\ LibIdle
    /\ TestIdle
    /\ input \in QueryInputs
    /\ flag = FALSE
    /\ observed = ""
    /\ pc = "status"
    /\ reports = <<>>
    /\ loc = NewLocals
    /\ stitcher = IdleStitcher
    /\ ref_result = NoOutcome
    /\ outcome = NoOutcome
    /\ printed = <<>>

CurrentNode == input.starting_nodes[loc.ni]

\* The cancellation flag trips (a deadline passes); it never resets.
Trip ==
    /\ pc \notin {"idle", "done", "printed"}
    /\ ~flag
    /\ flag' = TRUE
    /\ UNCHANGED <<input, observed, pc, reports, loc, stitcher, ref_result, outcome>>
    /\ UNCHANGED <<statsVars, printed, libVars, testVars>>

\* The match on the status with the Outdated arm falling through as well.
IsIndexedOrOutdated(status) == status \in {"Indexed", "Outdated"}

\* match status { FileStatus::Indexed => {} _ => { .. return } }
IsIndexed(status) == status = "Indexed"

\* status_for_file(..)? and the match on it, up to reporter.started.
CheckStatus ==
    /\ pc = "status"
    /\ \/ /\ outcome' = Err(StorageError)
          /\ pc' = "done"
          /\ UNCHANGED reports
       \/ /\ IsIndexed(input.file_status)
          /\ reports' = Append(reports, Started)
          /\ pc' = "load"
          /\ UNCHANGED outcome
       \/ /\ ~IsIndexed(input.file_status)
          /\ reports' = reports \o <<Started, Failed("file not indexed")>>
          /\ outcome' = Ok(<<>>, DefaultStats)
          /\ pc' = "done"
    /\ UNCHANGED <<input, flag, observed, loc, stitcher, ref_result>>
    /\ UNCHANGED <<statsVars, printed, libVars, testVars>>

\* load_graph_for_file(..)? and the collection of the starting nodes.
LoadGraph ==
    /\ pc = "load"
    /\ \/ /\ outcome' = Err(StorageError)
          /\ pc' = "done"
          /\ UNCHANGED <<reports, loc>>
       \/ /\ input.starting_nodes = <<>>
          /\ reports' = Append(reports, CancelledReport("no references at location"))
          /\ outcome' = Ok(<<>>, DefaultStats)
          /\ pc' = "done"
          /\ UNCHANGED loc
       \/ /\ input.starting_nodes # <<>>
          /\ loc' = NewLocals
          /\ pc' = "node"
          /\ UNCHANGED <<reports, outcome>>
    /\ UNCHANGED <<input, flag, observed, stitcher, ref_result>>
    /\ UNCHANGED <<statsVars, printed, libVars, testVars>>

\* for (node, span) in starting_nodes: find_all_complete_partial_paths is
\* entered with std::iter::once(node) and an empty reference_paths.
BeginNode ==
    /\ pc = "node"
    /\ loc.ni <= Len(input.starting_nodes)
    /\ loc' = [loc EXCEPT !.reference_paths = <<>>, !.actual_paths = <<>>, !.si = 1]
    /\ stitcher' = NewStitcher(<<CurrentNode>>)
    /\ pc' = "stitching"
    /\ UNCHANGED <<input, flag, observed, reports, ref_result, outcome>>
    /\ UNCHANGED <<statsVars, printed, libVars, testVars>>

\* A poll of the flag inside the stitcher sees it set: Cancelled, and halt.
StitchCancelled ==
    /\ pc = "stitching"
    /\ flag
    /\ observed' = StitchLocation
    /\ ref_result' = Err(CancellationError(StitchLocation))
    /\ pc' = "stitched"
    /\ UNCHANGED <<input, flag, reports, loc, stitcher, outcome>>
    /\ UNCHANGED <<statsVars, printed, libVars, testVars>>

\* One queued path is extended by its candidates from the database.
StitchProcess ==
    /\ pc = "stitching"
    /\ ~flag
    /\ stitcher.queued # <<>>
    /\ \E order \in Orders(Candidates(input.database, Head(stitcher.queued))) :
          stitcher' = Extend([stitcher EXCEPT !.queued = Tail(@),
                                              !.processed = @ + 1],
                             Head(stitcher.queued), order,
                             QueryStitcherConfig.detect_similar_paths)
    /\ UNCHANGED <<input, flag, observed, pc, reports, loc, ref_result, outcome>>
    /\ UNCHANGED <<statsVars, printed, libVars, testVars>>

\* Phase boundary: the paths of the phase that became complete are emitted
\* and the queues swap.
StitchPhaseEnd ==
    /\ pc = "stitching"
    /\ ~flag
    /\ PhaseDrained(stitcher)
    /\ stitcher.next_phase # <<>>
    /\ loc' = [loc EXCEPT !.reference_paths =
                  EmitAll(@, CompletePaths(stitcher.next_phase))]
    /\ stitcher' = [stitcher EXCEPT
          !.queued = stitcher.next_phase,
          !.next_phase = <<>>,
          !.phase = @ + 1,
          !.processed = 0,
          !.stats = [queued_paths_per_phase |->
                        AddValue(@.queued_paths_per_phase, Len(stitcher.next_phase)),
                     processed_paths_per_phase |->
                        AddValue(@.processed_paths_per_phase, stitcher.processed)]]
    /\ UNCHANGED <<input, flag, observed, pc, reports, ref_result, outcome>>
    /\ UNCHANGED <<statsVars, printed, libVars, testVars>>

\* Both queues are empty: the stitcher returns its statistics.
StitchDone ==
    /\ pc = "stitching"
    /\ ~flag
    /\ stitcher.queued = <<>>
    /\ stitcher.next_phase = <<>>
    /\ ref_result' = [kind |-> "Ok", stats |-> stitcher.stats]
    /\ pc' = "stitched"
    /\ UNCHANGED <<input, flag, observed, reports, loc, stitcher, outcome>>
    /\ UNCHANGED <<statsVars, printed, libVars, testVars>>

\* match ref_result { Ok(ref_stats) => stats += &ref_stats, Err(err) => .. }
HandleRefResult ==
    /\ pc = "stitched"
    /\ \/ /\ ref_result.kind = "Ok"
          /\ loc' = [loc EXCEPT !.stats = StatsMerge(@, ref_result.stats)]
          /\ pc' = "shadowing"
          /\ UNCHANGED <<reports, outcome>>
       \/ /\ ref_result.kind = "Err"
          /\ reports' = Append(reports, Failed("query timed out"))
          /\ outcome' = Err(Cancelled(ref_result.error))
          /\ pc' = "done"
          /\ UNCHANGED loc
    /\ UNCHANGED <<input, flag, observed, stitcher, ref_result>>
    /\ UNCHANGED <<statsVars, printed, libVars, testVars>>

\* for reference_path in &reference_paths: the poll, then the filter.
ShadowStep ==
    /\ pc = "shadowing"
    /\ loc.si <= Len(loc.reference_paths)
    /\ \/ /\ flag
          /\ observed' = "shadowing"
          /\ reports' = Append(reports, Failed("query timed out"))
          /\ outcome' = Err(Cancelled(CancellationError("shadowing")))
          /\ pc' = "done"
          /\ UNCHANGED loc
       \/ /\ ~flag
          /\ loc' = [loc EXCEPT
                !.actual_paths =
                    IF IsActual(loc.reference_paths, loc.reference_paths[loc.si])
                    THEN Append(@, loc.reference_paths[loc.si]) ELSE @,
                !.si = @ + 1]
          /\ UNCHANGED <<observed, reports, outcome, pc>>
    /\ UNCHANGED <<input, flag, stitcher, ref_result>>
    /\ UNCHANGED <<statsVars, printed, libVars, testVars>>

\* let definitions = actual_paths.filter_map(..); result.push(QueryResult {..})
CollectDefinitions ==
    /\ pc = "shadowing"
    /\ loc.si > Len(loc.reference_paths)
    /\ loc' = [loc EXCEPT
          !.result = PushResult(@, CurrentNode,
                                FilterMapDefinitions(loc.actual_paths, input)),
          !.ni = @ + 1]
    /\ pc' = "node"
    /\ UNCHANGED <<input, flag, observed, reports, stitcher, ref_result, outcome>>
    /\ UNCHANGED <<statsVars, printed, libVars, testVars>>

\* After the loop: reporter.succeeded(..) and Ok((result, stats)).
Finish ==
    /\ pc = "node"
    /\ loc.ni > Len(input.starting_nodes)
    /\ reports' = Append(reports, Succeeded(CountTargets(loc.result), Len(loc.result)))
    /\ outcome' = Ok(loc.result, loc.stats)
    /\ pc' = "done"
    /\ UNCHANGED <<input, flag, observed, loc, stitcher, ref_result>>
    /\ UNCHANGED <<statsVars, printed, libVars, testVars>>

\* Definition::run, which calls definitions with NoCancellation (the flag
\* never trips): on Ok it prints each queried reference with its summary line,
\* on Err the error is propagated and nothing is printed.
PrintResults ==
    /\ pc = "done"
    /\ ~flag
    /\ outcome.kind = "Ok"
    /\ printed' = [i \in 1..Len(outcome.result) |->
                      DefinitionsLine(Len(outcome.result[i].targets))]
    /\ pc' = "printed"
    /\ UNCHANGED <<input, flag, observed, reports, loc, stitcher, ref_result, outcome>>
    /\ UNCHANGED <<statsVars, libVars, testVars>>

QueryNext ==
    \/ Trip
    \/ CheckStatus
    \/ LoadGraph
    \/ BeginNode
    \/ StitchCancelled
    \/ StitchProcess
    \/ StitchPhaseEnd
    \/ StitchDone
    \/ HandleRefResult
    \/ ShadowStep
    \/ CollectDefinitions
    \/ Finish
    \/ PrintResults

SpecQuery == QueryInit /\ [][QueryNext]_vars

(***************************************************************************)
(* Concatenation of three partial paths in both groupings (spec.md 4.3,    *)
(* 8): P, Q and R lie along a chain of four nodes, so that the endpoints   *)
(* match, and carry any well-formed stack conditions within the bounds.    *)
(***************************************************************************)
\* The number of symbols the six symbol-stack conditions hold together.
MaxSyms == 3

Symbols == {"x", "y"}

\* The sequences of at most n symbols.
SymSeqs(n) == UNION {[1..k -> Symbols] : k \in 0..n}

\* Which of a path's precondition and postcondition end in the path's stack
\* variable: a postcondition can only mention a variable of the precondition.
VarShapes == {<<TRUE, TRUE>>, <<TRUE, FALSE>>, <<FALSE, FALSE>>}

\* The scope-stack conditions of a path: it keeps the scope stack, pushes a
\* scope on it, or pops one off it.
ScopeKeep == <<VarStack, VarStack>>

ScopePush == <<VarStack, Stack(<<"s1">>, TRUE)>>

ScopePop == <<Stack(<<"s1">>, TRUE), VarStack>>

ChainPath(start, end, pre, post, shape, scope) ==
    PartialPath(start, end, Stack(pre, shape[1]), Stack(post, shape[2]),
                scope[1], scope[2], <<Edge(start, end, 0)>>)

\* (P o Q) o R
ConcatenateLeft(P, Q, R) ==
    LET pq == Concatenate(P, Q)
    IN  IF pq.ok THEN Concatenate(pq.path, R) ELSE pq

\* P o (Q o R)
ConcatenateRight(P, Q, R) ==
    LET qr == Concatenate(Q, R)
    IN  IF qr.ok THEN Concatenate(P, qr.path) ELSE qr

ConcatInit ==
    /\ StatsIdle
    /\ QueryIdle
    /\ DbIdle
    /\ TestIdle
    /\ \E a \in SymSeqs(MaxSyms) :
       \E b \in SymSeqs(MaxSyms - Len(a)) :
       \E c \in SymSeqs(MaxSyms - Len(a) - Len(b)) :
       \E d \in SymSeqs(MaxSyms - Len(a) - Len(b) - Len(c)) :
       \E e \in SymSeqs(MaxSyms - Len(a) - Len(b) - Len(c) - Len(d)) :
       \E f \in SymSeqs(MaxSyms - Len(a) - Len(b) - Len(c) - Len(d) - Len(e)) :
       \E vp \in VarShapes, vq \in VarShapes, vr \in VarShapes :
       \E sp \in {ScopeKeep, ScopePush}, sq \in {ScopeKeep, ScopePop},
          sr \in {ScopeKeep, ScopePop} :
           concat = [P |-> ChainPath("r1", "s1", a, b, vp, sp),
                     Q |-> ChainPath("s1", "root", c, d, vq, sq),
                     R |-> ChainPath("root", "d2", e, f, vr, sr),
                     pc |-> "left", left |-> NoOutcome, right |-> NoOutcome]

ConcatLeft ==
    /\ concat.pc = "left"
    /\ concat' = [concat EXCEPT
          !.left = ConcatenateLeft(concat.P, concat.Q, concat.R),
          !.pc = "right"]
    /\ UNCHANGED <<statsVars, queryVars, db, testVars>>

ConcatRight ==
    /\ concat.pc = "right"
    /\ concat' = [concat EXCEPT
          !.right = ConcatenateRight(concat.P, concat.Q, concat.R),
          !.pc = "done"]
    /\ UNCHANGED <<statsVars, queryVars, db, testVars>>

ConcatNext == ConcatLeft \/ ConcatRight

SpecConcat == ConcatInit /\ [][ConcatNext]_vars

(***************************************************************************)
(* tests/it/can_find_root_partial_paths_in_database.rs:                    *)
(* check_root_partial_paths fills a fresh Database with the minimal        *)
(* partial paths of one file and looks up the candidates from the root.    *)
(***************************************************************************)
Files == {"a.rs", "b.rs"}

\* The file a partial path lies in: that of its nodes other than the root.
FileOfPath(p) == IF p.start_node = "root" THEN FileOf(p.end_node) ELSE FileOf(p.start_node)

\* What find_minimal_partial_path_set_in_file can hand to its callback for a
\* file: partial paths that lie in the file.
FilePaths(file) == {p \in PathUniverse : FileOfPath(p) = file}

\* symbol_stack.push_front(&mut partials, scoped_symbol)
push_front(stack, symbol) == Stack(<<symbol>> \o stack.syms, stack.var)

\* for symbol in precondition.iter().rev() { symbol_stack.push_front(..) }
RECURSIVE PushAllReversed(_, _)
PushAllReversed(stack, precondition) ==
    IF precondition = <<>> THEN stack
    ELSE PushAllReversed(push_front(stack, precondition[Len(precondition)]),
                         SubSeq(precondition, 1, Len(precondition) - 1))

\* The preconditions the lookups are made with.
Preconditions ==
    {<<>>, <<"x">>, <<"y">>, <<"x", ".", "baz">>, <<"baz", ".", "x">>, <<"baz">>}

DbInit ==
    /\ StatsIdle
    /\ QueryIdle
    /\ ConcatIdle
    /\ TestIdle
    /\ \E file \in Files, paths \in SUBSET PathUniverse :
          /\ paths \subseteq FilePaths(file)
          /\ db = [file |-> file, todo |-> paths, database |-> NewDatabase,
                   symbol_stack |-> None, results |-> {}, pc |-> "adding"]

\* The callback of find_minimal_partial_path_set_in_file:
\* db.add_partial_path(graph, partials, path.clone())
AddPartialPath ==
    /\ db.pc = "adding"
    /\ \E path \in db.todo :
          db' = [db EXCEPT !.database = add_partial_path(@, path),
                           !.todo = @ \ {path}]
    /\ UNCHANGED <<statsVars, queryVars, concat, testVars>>

\* find_minimal_partial_path_set_in_file returns: every path has been added.
AllAdded ==
    /\ db.pc = "adding"
    /\ db.todo = {}
    /\ db' = [db EXCEPT !.pc = "filled"]
    /\ UNCHANGED <<statsVars, queryVars, concat, testVars>>

\* db.find_candidate_partial_paths_from_root(.., Some(symbol_stack), &mut results)
FindFromRoot ==
    /\ db.pc = "filled"
    /\ \E precondition \in Preconditions :
          LET symbol_stack == Some(PushAllReversed(EmptyStack, precondition))
          IN  db' = [db EXCEPT
                  !.symbol_stack = symbol_stack,
                  !.results = find_candidate_partial_paths_from_root(db.database,
                                                                      symbol_stack),
                  !.pc = "found"]
    /\ UNCHANGED <<statsVars, queryVars, concat, testVars>>

\* The same lookup with no symbol stack.
FindAllFromRoot ==
    /\ db.pc = "filled"
    /\ db' = [db EXCEPT
          !.symbol_stack = None,
          !.results = find_candidate_partial_paths_from_root(db.database, None),
          !.pc = "found"]
    /\ UNCHANGED <<statsVars, queryVars, concat, testVars>>

DbNext == AddPartialPath \/ AllAdded \/ FindFromRoot \/ FindAllFromRoot

SpecDb == DbInit /\ [][DbNext]_vars

(***************************************************************************)
(* cli/test.rs: the test command, TestArgs::run over the test paths and    *)
(* run_test / run_test_inner on each of them.  A path is the sequence of   *)
(* its components and a component the sequence of its dot-separated parts. *)
(* The loader, the test parser, the graph builders, the assertions and the *)
(* file system answer as they please.                                      *)
(***************************************************************************)
\* The number of test paths iter_files_and_directories can yield.
MaxTests == 2

TestPaths ==
    {<<<<"a", "py">>>>,
     <<<<"a", "py", "skip">>>>,
     <<<<"d", "skip">>, <<"a", "py">>>>,
     <<<<"d">>, <<"b", "py">>>>}

\* Path::extension of one component: what follows its last dot, if any.
extension(name) == IF Len(name) >= 2 THEN Some(name[Len(name)]) ELSE None

\* Path::extension: that of the final component.
path_extension(path) == IF path = <<>> THEN None ELSE extension(path[Len(path)])

\* path.with_extension(""): the final component without its extension.
with_extension_empty(path) ==
    IF path_extension(path) = None THEN path
    ELSE [path EXCEPT ![Len(path)] = SubSeq(@, 1, Len(@) - 1)]

\* let load_path = if test_path.extension() == "skip" { .. } else { .. }
load_path(test_path) ==
    IF path_extension(test_path) = Some("skip")
    THEN with_extension_empty(test_path) ELSE test_path

\* test_path.components().any(|c| .. extension == "skip")
is_skipped(test_path) ==
    \E i \in 1..Len(test_path) : extension(test_path[i]) = Some("skip")

\* OutputMode::test, with the failure flag negated.
output_mode_test_negated(mode, failure) == IF mode = "Always" THEN TRUE ELSE ~failure

\* OutputMode::test
output_mode_test(mode, failure) == IF mode = "Always" THEN TRUE ELSE failure

\* What loader.load_for_file(..).primary can hold: the builtins graph of the
\* language (its files) and its StitcherConfig.
LanguageConfigurations ==
    [builtins : {<<"<builtins>">>, <<"<builtins>", "a.py">>},
     stitcher_config : [detect_similar_paths : BOOLEAN]]

\* What Test::from_source can give: the files of the fragments, which it adds
\* to test.graph.
Fragments == {<<"a.py">>, <<"a.py", "b.py">>}

\* What test.run can return.
TestResults ==
    {NewTestResult,
     [success_count |-> 2, failure_count |-> 0],
     [success_count |-> 1, failure_count |-> 1]}

\* TestResult::count
count(result) == result.success_count + result.failure_count

\* TestResult::absorb keeping only the counts of the latest result.
absorb_latest(result, other) ==
    [success_count |-> other.success_count,
     failure_count |-> other.failure_count]

\* TestResult::absorb
absorb(result, other) ==
    [success_count |-> result.success_count + other.success_count,
     failure_count |-> result.failure_count + other.failure_count]

\* An anyhow error: its message and the file it names, if any.
Error(message, file) == [message |-> message, file |-> file]

has_file(graph, file) == \E i \in 1..Len(graph) : graph[i] = file

\* add_from_graph splicing the files in whether or not they are present.
RECURSIVE add_from_graph_overwriting(_, _)
add_from_graph_overwriting(graph, other) ==
    IF other = <<>> THEN [kind |-> "Ok", graph |-> graph]
    ELSE add_from_graph_overwriting(
             IF has_file(graph, Head(other)) THEN graph ELSE Append(graph, Head(other)),
             Tail(other))

\* StackGraph::add_from_graph(other) -> Result<(), duplicate_file_handle>:
\* the files of other are added in turn and the first one already present is
\* reported (4.1, 4.2).
RECURSIVE add_from_graph(_, _)
add_from_graph(graph, other) ==
    IF other = <<>> THEN [kind |-> "Ok", graph |-> graph]
    ELSE IF has_file(graph, Head(other))
    THEN [kind |-> "Err", error |-> Head(other), graph |-> graph]
    ELSE add_from_graph(Append(graph, Head(other)), Tail(other))

\* load_builtins_into with the result of add_from_graph dropped.
load_builtins_into_unchecked(lc, graph) ==
    [kind |-> "Ok", graph |-> add_from_graph(graph, lc.builtins).graph]

\* fn load_builtins_into(&self, lc, graph) -> anyhow::Result<()>
load_builtins_into(lc, graph) ==
    LET r == add_from_graph(graph, lc.builtins)
    IN  IF r.kind = "Err"
        THEN [kind |-> "Err", error |-> Error("Duplicate builtin file", r.error),
              graph |-> r.graph]
        ELSE [kind |-> "Ok", graph |-> r.graph]

\* CLIFileReporter: the calls made on it, and whether the file is being
\* processed with no terminal status reported yet.
FileStatusCall(file_status, state, call, message) ==
    [state |-> state,
     reports |-> Append(file_status.reports, [call |-> call, message |-> message])]

processing(file_status) == FileStatusCall(file_status, "processing", "processing", "")

skipped(file_status, message) == FileStatusCall(file_status, "reported", "skipped", message)

success(file_status, message) == FileStatusCall(file_status, "reported", "success", message)

failure(file_status, message) == FileStatusCall(file_status, "reported", "failure", message)

failure_if_processing(file_status, message) ==
    IF file_status.state = "processing" THEN failure(file_status, message)
    ELSE file_status

\* CLIFileReporter::assert_reported passes unless the file is being processed
\* with no terminal status reported for it.
assert_reported(file_status) == file_status.state # "processing"

\* One invocation of the stitcher: its mode, the file or the purpose it is
\* run for, and the StitcherConfig passed to it.
StitcherCall(mode, file, config) == [mode |-> mode, file |-> file, config |-> config]

\* return Ok(result) from run_test_inner, through run_test.
ReturnOk(t, result) == [t EXCEPT !.ret = [kind |-> "Ok", value |-> result]]

\* return Err(e) with run_test passing the error on as it is.
ReturnErrUnreported(t, e) == [t EXCEPT !.ret = Err(e)]

\* return Err(e) from run_test_inner, through run_test, which calls
\* file_status.failure_if_processing("error", None).
ReturnErr(t, e) ==
    [t EXCEPT !.ret = Err(e),
              !.file_status = failure_if_processing(@, "error")]

\* "{}/{} assertions failed"
AssertionsFailed(result) ==
    [text |-> "assertions failed", failed |-> result.failure_count, of |-> count(result)]

TestInit ==
    /\ StatsIdle
    /\ QueryIdle
    /\ LibIdle
    /\ test_args \in [output_mode : {"Always", "OnFailure"},
                      no_builtins : BOOLEAN,
                      save_graph : BOOLEAN,
                      save_paths : BOOLEAN,
                      save_visualization : BOOLEAN,
                      quiet : BOOLEAN,
                      max_test_time : BOOLEAN,
                      test_paths : 1..MaxTests]
    /\ test_run = NewRun
    /\ test_pc = "loop"
    /\ test = NewTest(<<>>)

\* for (test_root, test_path, _) in iter_files_and_directories(..): run_test
\* is entered with a fresh CLIFileReporter.
RunTest ==
    /\ test_pc = "loop"
    /\ test_run.index < test_args.test_paths
    /\ \E test_path \in TestPaths :
          test' = [NewTest(test_path) EXCEPT !.load_path = load_path(test_path)]
    /\ test_pc' = "load"
    /\ UNCHANGED <<test_args, test_run>>
    /\ UNCHANGED <<statsVars, queryVars, libVars>>

\* loader.load_for_file(&load_path, ..)?.primary
LoadForFile ==
    /\ test_pc = "load"
    /\ \/ /\ test' = ReturnErr(test, Error("load error", ""))
          /\ test_pc' = "returned"
       \/ /\ test' = ReturnOk(test, NewTestResult)
          /\ test_pc' = "returned"
       \/ /\ \E lc \in LanguageConfigurations : test' = [test EXCEPT !.lc = Some(lc)]
          /\ test_pc' = "skip"
    /\ UNCHANGED <<test_args, test_run>>
    /\ UNCHANGED <<statsVars, queryVars, libVars>>

\* The test on the components of test_path, then file_status.processing().
SkipCheck ==
    /\ test_pc = "skip"
    /\ IF is_skipped(test.path)
       THEN /\ test' = ReturnOk([test EXCEPT !.file_status = skipped(@, "skipped")],
                                NewTestResult)
            /\ test_pc' = "returned"
       ELSE /\ test' = [test EXCEPT !.file_status = processing(@)]
            /\ test_pc' = "source"
    /\ UNCHANGED <<test_args, test_run>>
    /\ UNCHANGED <<statsVars, queryVars, libVars>>

\* file_reader.get(test_path)? and Test::from_source(..)?
ReadSource ==
    /\ test_pc = "source"
    /\ \/ /\ test' = ReturnErr(test, Error("read error", ""))
          /\ test_pc' = "returned"
       \/ /\ test' = ReturnErr(test, Error("parse error", ""))
          /\ test_pc' = "returned"
       \/ /\ \E fragments \in Fragments :
                test' = [test EXCEPT !.fragments = fragments, !.graph = fragments]
          /\ test_pc' = "builtins"
    /\ UNCHANGED <<test_args, test_run>>
    /\ UNCHANGED <<statsVars, queryVars, libVars>>

\* if !self.no_builtins { self.load_builtins_into(&lc, &mut test.graph)?; }
LoadBuiltins ==
    /\ test_pc = "builtins"
    /\ IF test_args.no_builtins
       THEN /\ test_pc' = "build"
            /\ UNCHANGED test
       ELSE LET r == load_builtins_into(test.lc.value, test.graph)
            IN  IF r.kind = "Err"
                THEN /\ test' = ReturnErr([test EXCEPT !.graph = r.graph], r.error)
                     /\ test_pc' = "returned"
                ELSE /\ test' = [test EXCEPT !.graph = r.graph]
                     /\ test_pc' = "build"
    /\ UNCHANGED <<test_args, test_run>>
    /\ UNCHANGED <<statsVars, queryVars, libVars>>

\* for test_fragment in &test.fragments: build_stack_graph_into, or the
\* fragment is not supported, or matches_file fails.
BuildFragment ==
    /\ test_pc = "build"
    /\ test.fi <= Len(test.fragments)
    /\ \/ /\ test' = [test EXCEPT !.built = @ + 1, !.fi = @ + 1]
          /\ test_pc' = "build"
       \/ /\ test' = ReturnErr([test EXCEPT
                                   !.built = @ + 1,
                                   !.file_status = failure(@, "failed to build stack graph")],
                               Error("Failed to build graph for", test.path))
          /\ test_pc' = "returned"
       \/ /\ test' = ReturnErr(test, Error("Test fragment not supported by language of test file",
                                           test.fragments[test.fi]))
          /\ test_pc' = "returned"
       \/ /\ test' = ReturnErr(test, Error("match error", ""))
          /\ test_pc' = "returned"
    /\ UNCHANGED <<test_args, test_run>>
    /\ UNCHANGED <<statsVars, queryVars, libVars>>

\* for file in test.graph.iter_files(): find_minimal_partial_path_set_in_file
\* with &lc.stitcher_config; the flag can trip when max_test_time is given.
MinimalPaths ==
    /\ test_pc = "build"
    /\ test.fi > Len(test.fragments)
    /\ \E k \in 1..Len(test.graph), cancelled \in BOOLEAN :
          /\ cancelled => test_args.max_test_time
          /\ ~cancelled => k = Len(test.graph)
          /\ LET calls == [i \in 1..k |->
                              StitcherCall("minimal", test.graph[i],
                                           test.lc.value.stitcher_config)]
                 t == [test EXCEPT !.stitched = @ \o calls]
             IN  IF cancelled
                 THEN /\ test' = ReturnErr(t, Error("cancelled", ""))
                      /\ test_pc' = "returned"
                 ELSE /\ test' = t
                      /\ test_pc' = "assertions"
    /\ UNCHANGED <<test_args, test_run>>
    /\ UNCHANGED <<statsVars, queryVars, libVars>>

\* let result = test.run(&mut partials, &mut db, &lc.stitcher_config, ..)?
RunAssertions ==
    /\ test_pc = "assertions"
    /\ LET t == [test EXCEPT
                    !.assertions_run = TRUE,
                    !.stitched = Append(@, StitcherCall("assertions", "",
                                                        test.lc.value.stitcher_config))]
       IN  \/ /\ test_args.max_test_time
              /\ test' = ReturnErr(t, Error("cancelled", ""))
              /\ test_pc' = "returned"
           \/ /\ \E result \in TestResults : test' = [t EXCEPT !.result = result]
              /\ test_pc' = "output"
    /\ UNCHANGED <<test_args, test_run>>
    /\ UNCHANGED <<statsVars, queryVars, libVars>>

\* The steps of save_output that the options ask for, in the order taken.
SaveSteps ==
    (IF test_args.save_graph THEN <<"graph">> ELSE <<>>)
    \o (IF test_args.save_paths \/ test_args.save_visualization
        THEN <<"compute_paths">> ELSE <<>>)
    \o (IF test_args.save_paths THEN <<"paths">> ELSE <<>>)
    \o (IF test_args.save_visualization THEN <<"visualization">> ELSE <<>>)

\* The lines save_output adds to outputs for the files it wrote.
OutputLines(written, succeeded) ==
    IF ~succeeded \/ ~test_args.quiet
    THEN SelectSeq(written, LAMBDA step : step # "compute_paths")
    ELSE <<>>

\* save_output after n of its steps have succeeded: the files written, and
\* the stitcher invocation of compute_paths if it was reached.
AfterSaving(t, n, succeeded) ==
    LET steps == SaveSteps
        reached == SubSeq(steps, 1, IF n < Len(steps) THEN n + 1 ELSE n)
        written == SubSeq(steps, 1, n)
    IN  [t EXCEPT
            !.saved = {written[i] : i \in 1..Len(written)} \ {"compute_paths"},
            !.stitched = IF \E i \in 1..Len(reached) : reached[i] = "compute_paths"
                         THEN Append(@, StitcherCall("complete", "",
                                                     t.lc.value.stitcher_config))
                         ELSE @,
            !.outputs = OutputLines(written, succeeded)]

\* The report of the terminal status and return Ok(result).
ReportResult(t, succeeded) ==
    ReturnOk([t EXCEPT !.file_status =
                 IF succeeded THEN success(@, "success")
                 ELSE failure(@, AssertionsFailed(t.result))],
             t.result)

\* let outputs = if self.output_mode.test(!success) { self.save_output(..)? }
\* else { Vec::default() }; then file_status.success / failure and Ok(result).
\* A step of save_output can fail: writing a file, or compute_paths on the
\* flag tripping.
SaveOutput ==
    /\ test_pc = "output"
    /\ LET succeeded == test.result.failure_count = 0
       IN  IF output_mode_test(test_args.output_mode, ~succeeded)
           THEN \E n \in 0..Len(SaveSteps) :
                   IF n = Len(SaveSteps)
                   THEN test' = ReportResult(AfterSaving(test, n, succeeded), succeeded)
                   ELSE /\ SaveSteps[n + 1] = "compute_paths" => test_args.max_test_time
                        /\ test' = ReturnErr(AfterSaving(test, n, succeeded),
                                             Error("save error", SaveSteps[n + 1]))
           ELSE test' = ReportResult(test, succeeded)
    /\ test_pc' = "returned"
    /\ UNCHANGED <<test_args, test_run>>
    /\ UNCHANGED <<statsVars, queryVars, libVars>>

\* Back in run: `?` on what run_test returned, file_status.assert_reported()
\* and total_result.absorb(test_result).
EndTest ==
    /\ test_pc = "returned"
    /\ IF test.ret.kind = "Err"
       THEN /\ test_run' = [test_run EXCEPT !.outcome = test.ret]
            /\ test_pc' = "finished"
       ELSE IF ~assert_reported(test.file_status)
       THEN /\ test_run' = [test_run EXCEPT !.outcome = [kind |-> "panic"]]
            /\ test_pc' = "finished"
       ELSE /\ test_run' = [test_run EXCEPT
                  !.total_result = absorb(@, test.ret.value),
                  !.results = Append(@, test.ret.value),
                  !.index = @ + 1]
            /\ test_pc' = "loop"
    /\ UNCHANGED <<test_args, test>>
    /\ UNCHANGED <<statsVars, queryVars, libVars>>

\* After the loop: Err(total_result.to_string()) if an assertion failed.
EndRun ==
    /\ test_pc = "loop"
    /\ test_run.index = test_args.test_paths
    /\ test_run' = [test_run EXCEPT !.outcome =
          IF test_run.total_result.failure_count > 0
          THEN Err(Error("failures", ""))
          ELSE [kind |-> "Ok", value |-> <<>>]]
    /\ test_pc' = "finished"
    /\ UNCHANGED <<test_args, test>>
    /\ UNCHANGED <<statsVars, queryVars, libVars>>

TestNext ==
    \/ RunTest
    \/ LoadForFile
    \/ SkipCheck
    \/ ReadSource
    \/ LoadBuiltins
    \/ BuildFragment
    \/ MinimalPaths
    \/ RunAssertions
    \/ SaveOutput
    \/ EndTest
    \/ EndRun

SpecTest == TestInit /\ [][TestNext]_vars


(***************************************************************************)
(* Properties of FrequencyDistribution (checked under SpecStats).          *)
(***************************************************************************)
RECURSIVE SumOver(_, _)
SumOver(f, S) ==
    IF S = {} THEN 0
    ELSE LET x == CHOOSE y \in S : TRUE IN f[x] + SumOver(f, S \ {x})

\* The distinct values added to distribution n so far.
Support(n) == {v \in Values : added[n][v] > 0}

SetMin(S) == CHOOSE x \in S : \A y \in S : x <= y

SetMax(S) == CHOOSE x \in S : \A y \in S : x >= y

\* The cumulative count of value v: how many stored samples are <= v.
CumCount(d, v) == SumOver(d.values, {u \in DOMAIN d.values : u <= v})

QuantilesReturned == last.name = "quantiles"

NonEmptyQuantiles ==
    /\ QuantilesReturned
    /\ last.q >= 1
    /\ fd[last.dist].total >= 1

\* C1: quantiles(q) returns the empty sequence when q = 0 or total = 0, and
\* exactly q+1 values for every q >= 1 on a non-empty distribution.
C1_QuantilesLength ==
    QuantilesReturned =>
        IF last.q = 0 \/ fd[last.dist].total = 0
        THEN last.res = <<>>
        ELSE Len(last.res) = last.q + 1

C1_Witness ==
    /\ NonEmptyQuantiles
    /\ last.q = MaxQ
    /\ unique(fd[last.dist]) >= 2
    /\ Len(last.res) = last.q + 1

\* C2: on a non-empty distribution with q >= 1, index 0 of quantiles(q) is the
\* minimum of the values added and index q is their maximum.
C2_MinMax ==
    NonEmptyQuantiles =>
        /\ last.res[1] = SetMin(Support(last.dist))
        /\ last.res[last.q + 1] = SetMax(Support(last.dist))

C2_Witness ==
    /\ NonEmptyQuantiles
    /\ Cardinality(Support(last.dist)) = Cardinality(Values)
    /\ last.res[1] = SetMin(Values)
    /\ last.res[last.q + 1] = SetMax(Values)

\* C3: the sequence quantiles(q) returns is non-decreasing.
C3_NonDecreasing ==
    QuantilesReturned =>
        \A i \in 1..(Len(last.res) - 1) : last.res[i] <= last.res[i + 1]

C3_Witness ==
    /\ NonEmptyQuantiles
    /\ \E i \in 1..(Len(last.res) - 1) : last.res[i] < last.res[i + 1]
    /\ \E i \in 1..(Len(last.res) - 1) : last.res[i] = last.res[i + 1]

\* C4 as stated: index k of quantiles(q) is the last value whose cumulative
\* count is strictly less than round(total * k / q), for each k in 1..q.
C4_LastBelowLimit ==
    NonEmptyQuantiles =>
        \A k \in 1..last.q :
            LET d == fd[last.dist]
                below == {v \in DOMAIN d.values :
                             CumCount(d, v) < RoundDiv(d.total * k, last.q)}
            IN  /\ below # {}
                /\ last.res[k + 1] = SetMax(below)

\* C4 (amended): index k of quantiles(q) is the first value, in ascending
\* order, whose cumulative count is at least round(total * k / q).
C4_FirstReachingLimit ==
    NonEmptyQuantiles =>
        \A k \in 1..last.q :
            LET d == fd[last.dist]
                reached == {v \in DOMAIN d.values :
                               CumCount(d, v) >= RoundDiv(d.total * k, last.q)}
            IN  /\ reached # {}
                /\ last.res[k + 1] = SetMin(reached)

C4_Witness ==
    /\ NonEmptyQuantiles
    /\ last.q >= 3
    /\ unique(fd[last.dist]) = Cardinality(Values)
    /\ \E k \in 1..last.q :
          /\ last.res[k + 1] # SetMin(Values)
          /\ last.res[k + 1] # SetMax(Values)

\* The distribution {1:3, 2:1, 5:2} queried with q = 4.
C5_Case ==
    /\ QuantilesReturned
    /\ last.q = 4
    /\ added[last.dist] = [v \in Values |-> CASE v = 1 -> 3 [] v = 2 -> 1 [] v = 5 -> 2]

\* C5 as stated: for {1:3, 2:1, 5:2}, quantiles(4) returns [1, 1, 2, 5, 5].
C5_ExampleAsStated == C5_Case => last.res = <<1, 1, 2, 5, 5>>

\* C5 (amended): for {1:3, 2:1, 5:2}, quantiles(4) returns [1, 1, 1, 5, 5].
C5_Example == C5_Case => last.res = <<1, 1, 1, 5, 5>>

C5_Witness == C5_Case /\ Len(last.res) = 5

\* C6: after any sequence of add and merge from the empty distribution,
\* total() is the sum of the stored counts and the number of values added
\* with multiplicity, unique() is the number of distinct values added, and
\* every stored count is at least 1.
C6_Multiset ==
    \A n \in Dists :
        /\ total(fd[n]) = SumOver(fd[n].values, DOMAIN fd[n].values)
        /\ total(fd[n]) = SumOver(added[n], Values)
        /\ unique(fd[n]) = Cardinality(Support(n))
        /\ \A v \in DOMAIN fd[n].values : fd[n].values[v] >= 1

C6_Witness ==
    /\ last.name = "merge"
    /\ \E v \in Values :
          /\ added[last.other][v] >= 1
          /\ added[last.dist][v] > added[last.other][v]
    /\ unique(fd[last.dist]) > unique(fd[last.other])
    /\ total(fd[last.dist]) = MaxTotal

(***************************************************************************)
(* Properties of Querier::definitions (checked under SpecQuery).           *)
(***************************************************************************)
Returned == pc \in {"done", "printed"}

LastReport == reports[Len(reports)]

InSeq(x, seq) == \E i \in 1..Len(seq) : seq[i] = x

\* Completeness as section 3 states it.
CompleteAsSpecified(p) ==
    /\ Kind(p.start_node) = "reference"
    /\ Kind(p.end_node) = "definition"
    /\ p.symbol_stack_precondition.syms = <<>>
    /\ ~p.symbol_stack_precondition.var
    /\ p.scope_stack_postcondition.syms = <<>>

\* The paths the stitcher has built that end at a definition but are not complete.
IncompleteAtDefinition ==
    {p \in stitcher.seen : is_definition(p.end_node) /\ ~CompleteAsSpecified(p)}

\* C7: every path delivered to the emit callback, and so every path a
\* definition is derived from, is complete: it starts at a reference, ends at
\* a definition, has an empty symbol-stack precondition without variable and
\* an empty scope-stack postcondition; every target names a definition node.
C7_EmittedPathsComplete ==
    /\ \A i \in 1..Len(loc.reference_paths) : CompleteAsSpecified(loc.reference_paths[i])
    /\ \A i \in 1..Len(loc.actual_paths) : CompleteAsSpecified(loc.actual_paths[i])
    /\ \A i \in 1..Len(loc.result) :
          \A j \in 1..Len(loc.result[i].targets) :
              is_definition(loc.result[i].targets[j].span)

C7_Witness ==
    /\ Returned
    /\ outcome.kind = "Ok"
    /\ Len(loc.reference_paths) >= 2
    /\ IncompleteAtDefinition # {}
    /\ \E i \in 1..Len(outcome.result) : outcome.result[i].targets # <<>>

\* The nodes reachable from a set of nodes along partial paths of the database.
RECURSIVE ReachableFrom(_)
ReachableFrom(S) ==
    LET step == S \cup {p.end_node : p \in {c \in input.database : c.start_node \in S}}
    IN  IF step = S THEN S ELSE ReachableFrom(step)

NoReachableDefinition(n) == ReachableFrom({n}) \cap Definitions = {}

\* C8: a reference with no reachable definition is not an error: the
\* stitcher emits no path for it, a call fails only on a storage error or an
\* observed cancellation, and a call that returns Ok for an indexed file has
\* reported success and holds, for each such reference, a QueryResult whose
\* target list is empty, which Definition::run prints as "has no definitions".
C8_NoDefinitionIsNoError ==
    /\ (pc \in {"stitching", "stitched", "shadowing"} /\ NoReachableDefinition(CurrentNode))
          => loc.reference_paths = <<>>
    /\ (Returned /\ outcome.kind = "Err")
          => \/ outcome.error.type = "StorageError"
             \/ outcome.error.type = "Cancelled" /\ observed # ""
    /\ (Returned /\ outcome.kind = "Ok" /\ input.file_status = "Indexed"
            /\ input.starting_nodes # <<>>)
          => /\ LastReport.kind = "succeeded"
             /\ Len(outcome.result) = Len(input.starting_nodes)
             /\ \A i \in 1..Len(input.starting_nodes) :
                   /\ outcome.result[i].source.span = input.starting_nodes[i]
                   /\ NoReachableDefinition(input.starting_nodes[i])
                         => /\ outcome.result[i].targets = <<>>
                            /\ pc = "printed" => printed[i] = "has no definitions"

C8_Witness ==
    /\ pc = "printed"
    /\ Len(printed) = 2
    /\ printed[2] = "has no definitions"
    /\ outcome.kind = "Ok"
    /\ LastReport.kind = "succeeded"
    /\ Len(outcome.result) = 2
    /\ outcome.result[1].targets # <<>>
    /\ NoReachableDefinition(input.starting_nodes[2])
    /\ outcome.result[2].targets = <<>>

\* C9: once a poll of the cancellation flag has seen it set, in the stitcher
\* or in the shadowing loop, the call halts: the stitcher has returned the
\* cancellation error, or the call has reported failure and returned
\* Cancelled with the location of that poll; it never returns Ok.
C9_CancellationSurfaced ==
    observed # "" =>
        \/ /\ pc = "stitched"
           /\ ref_result = Err(CancellationError(observed))
           /\ outcome = NoOutcome
        \/ /\ Returned
           /\ outcome = Err([type |-> "Cancelled", at |-> observed])
           /\ LastReport = Failed("query timed out")

C9_Witness ==
    /\ Returned
    /\ observed = "shadowing"
    /\ outcome.kind = "Err"
    /\ loc.actual_paths # <<>>

Unshadowed(paths, i) == \A j \in 1..Len(paths) : j # i => ~shadows(paths[j], paths[i])

\* C10: of the complete paths found for a reference, the filtered list holds
\* a path only if no found path shadows it and holds every path no other found
\* path shadows; the targets of the reference are the spans of the end nodes
\* of exactly those paths (those with source info), one target per path.
C10_ShadowedPathsDropped ==
    /\ pc = "shadowing" =>
          \A i \in 1..(loc.si - 1) :
              InSeq(loc.reference_paths[i], loc.actual_paths)
                  <=> Unshadowed(loc.reference_paths, i)
    /\ (pc = "node" \/ (Returned /\ outcome.kind = "Ok")) /\ loc.ni > 1 =>
          LET targets == loc.result[loc.ni - 1].targets
              paths == loc.reference_paths
          IN  /\ \A i \in 1..Len(paths) :
                    InSeq(paths[i], loc.actual_paths) <=> Unshadowed(paths, i)
              /\ Len(targets) =
                    Cardinality({i \in 1..Len(paths) :
                                    /\ Unshadowed(paths, i)
                                    /\ paths[i].end_node \in input.source_info})
              /\ \A t \in 1..Len(targets) :
                    \E i \in 1..Len(paths) :
                        /\ Unshadowed(paths, i)
                        /\ targets[t] = SourceSpan(FileOf(paths[i].end_node),
                                                   paths[i].end_node)
              /\ \A i \in 1..Len(paths) :
                    (Unshadowed(paths, i) /\ paths[i].end_node \in input.source_info)
                        => InSeq(SourceSpan(FileOf(paths[i].end_node), paths[i].end_node),
                                 targets)

C10_Witness ==
    /\ Returned
    /\ outcome.kind = "Ok"
    /\ loc.actual_paths # <<>>
    /\ \E i \in 1..Len(loc.reference_paths) :
          /\ ~Unshadowed(loc.reference_paths, i)
          /\ ~InSeq(loc.reference_paths[i], loc.actual_paths)
    /\ input.source_info = Definitions
    /\ Len(outcome.result[Len(outcome.result)].targets) = Len(loc.actual_paths)
    /\ Len(loc.actual_paths) < Len(loc.reference_paths)

(***************************************************************************)
(* Claims about merging two distributions.                                 *)
(***************************************************************************)
\* The step a.merge(b) that has just been taken, if any.
MergeStep == last'.name = "merge"

\* C20: merge is pointwise multiset addition: after a.merge(b) the count of
\* every value v in a is its count before plus its count in b, a.total() is
\* the sum of the two previous totals, and b is unchanged.
C20_MergePointwise ==
    [][MergeStep =>
          LET a == last'.dist
              b == last'.other
          IN  /\ \A v \in Values :
                    EntryOrDefault(fd'[a].values, v)
                        = EntryOrDefault(fd[a].values, v) + EntryOrDefault(fd[b].values, v)
              /\ DOMAIN fd'[a].values = (DOMAIN fd[a].values) \cup (DOMAIN fd[b].values)
              /\ total(fd'[a]) = total(fd[a]) + total(fd[b])
              /\ fd'[b] = fd[b]]_vars

\* A merge has added a value held twice by b to an a that already held it,
\* and a also holds a value b does not.
C20_Witness ==
    /\ last.name = "merge"
    /\ \E v \in Values :
          /\ EntryOrDefault(fd[last.other].values, v) = 2
          /\ EntryOrDefault(fd[last.dist].values, v) = 3
    /\ \E w \in DOMAIN fd[last.dist].values : w \notin DOMAIN fd[last.other].values
    /\ total(fd[last.dist]) = total(fd[last.other]) + 3

(***************************************************************************)
(* Claims about the statistics report.                                     *)
(***************************************************************************)
RowPrinted == last.name = "quartiles"

\* The k-th quartile boundary of d (k in 0..4): the minimum for k = 0, else
\* the first value whose cumulative count c reaches round(total * k / 4),
\* that is c >= (2 * total * k + 4) \div 8, or 8 * (c + 1) > 2 * total * k + 4.
Boundary(d, k) ==
    IF k = 0 THEN SetMin(DOMAIN d.values)
    ELSE SetMin({v \in DOMAIN d.values : 8 * (CumCount(d, v) + 1) > 2 * d.total * k + 4})

NotIndexed ==
    /\ input.file_status \in {"Missing", "Outdated"}
    /\ Returned => outcome # Err(StorageError)

\* C19: Querier::definitions stitches only for a file whose status is
\* Indexed; when status_for_file returns Missing or Outdated it reports
\* started and then failed "file not indexed", loads no graph, runs no
\* stitching and returns Ok with an empty result list and empty statistics.
C19_NotIndexed ==
    /\ (pc \in {"stitching", "stitched", "shadowing"} \/ stitcher # IdleStitcher)
          => input.file_status = "Indexed"
    /\ NotIndexed =>
          /\ pc \in {"status", "done", "printed"}
          /\ stitcher = IdleStitcher
          /\ ref_result = NoOutcome
          /\ loc = NewLocals
          /\ Returned =>
                /\ reports = <<Started, Failed("file not indexed")>>
                /\ outcome.kind = "Ok"
                /\ outcome.result = <<>>
                /\ outcome.stats = DefaultStats
                /\ total(outcome.stats.queued_paths_per_phase) = 0
                /\ total(outcome.stats.processed_paths_per_phase) = 0

\* A query on an outdated file, whose position holds references with paths
\* in the database, has returned.
C19_Witness ==
    /\ input.file_status = "Outdated"
    /\ input.starting_nodes = <<"r1", "r2">>
    /\ LocalHigh \in input.database
    /\ pc = "done"
    /\ outcome.kind = "Ok"
    /\ Len(reports) = 2

(***************************************************************************)
(* Claims about the configuration of the stitcher.                         *)
(***************************************************************************)
\* C14: every stitcher invocation uses the StitcherConfig supplied by the
\* caller: the stitcher of Querier::definitions runs with the configuration
\* of the language of the queried file.
C14_CallerConfigUsed ==
    pc = "stitching" => QueryStitcherConfig = input.stitcher_config

(***************************************************************************)
(* Claims about the phases of the stitcher.                                *)
(***************************************************************************)
\* The step delivers paths to the emit callback of the running stitcher.
Emits == pc = "stitching" /\ loc'.reference_paths # loc.reference_paths

\* The paths a step has delivered to the callback.
Emitted == SubSeq(loc'.reference_paths, Len(loc.reference_paths) + 1,
                  Len(loc'.reference_paths))

\* C12: the stitcher works in phases: with k the depth of the paths in
\* queued (the phase count), a path of depth k+1 (one produced into
\* next_phase) is emitted only in a step taken when every queued path of
\* depth k has been processed, and the depth advances only in such a step.
C12_PhaseOrder ==
    [][/\ Emits =>
            /\ stitcher.queued = <<>>
            /\ stitcher.processed >= 1
            /\ \A i \in 1..Len(Emitted) : InSeq(Emitted[i], stitcher.next_phase)
            /\ stitcher'.phase = stitcher.phase + 1
            /\ SubSeq(loc'.reference_paths, 1, Len(loc.reference_paths))
                  = loc.reference_paths
       /\ (pc = "stitching" /\ stitcher.queued # <<>>) =>
            /\ stitcher'.phase = stitcher.phase
            /\ loc'.reference_paths = loc.reference_paths]_vars

\* A path of depth 2 has been emitted after a phase in which three paths of
\* depth 1 were queued and processed, one of them emitted at depth 1.
C12_Witness ==
    /\ pc = "stitching"
    /\ stitcher.phase = 2
    /\ 3 \in DOMAIN stitcher.stats.processed_paths_per_phase.values
    /\ Len(loc.reference_paths) >= 2
    /\ Len(loc.reference_paths[1].edges) < Len(loc.reference_paths[Len(loc.reference_paths)].edges)

(***************************************************************************)
(* Claims about concatenation.                                             *)
(***************************************************************************)
\* C13: concatenation is associative: for partial paths P, Q, R with
\* P.end_node = Q.start_node and Q.end_node = R.start_node, (P o Q) o R and
\* P o (Q o R) either both fail or give the same partial path: the same
\* endpoints, edge list, preconditions and postconditions (a stack variable
\* is a flag in this model, so equality is equality up to renaming).
C13_Associative ==
    concat.pc = "done" =>
        /\ concat.left.ok = concat.right.ok
        /\ concat.left.ok => concat.left.path = concat.right.path

\* Both groupings succeeded on three paths whose stacks each bind a
\* variable to a remainder.
C13_Witness ==
    /\ concat.pc = "done"
    /\ concat.left.ok
    /\ concat.right.ok
    /\ Len(concat.P.symbol_stack_postcondition.syms) = 1
    /\ Len(concat.Q.symbol_stack_precondition.syms) = 0
    /\ Len(concat.R.symbol_stack_precondition.syms) = 2
    /\ concat.P.scope_stack_postcondition.syms # <<>>
    /\ concat.R.scope_stack_precondition.syms # <<>>

(***************************************************************************)
(* Claims about the database.                                              *)
(***************************************************************************)
\* The root-anchored partial paths among those of the file in the database.
RootAnchored == {p \in FilePaths(db.file) : p.start_node = "root" /\ p \in RootPaths(db.database)}

\* A lookup with a non-empty symbol stack has returned.
FoundWithStack ==
    /\ db.pc = "found"
    /\ db.symbol_stack # None
    /\ db.symbol_stack.value.syms # <<>>

\* The symbol a pop node would match: the first of the stack.
TopSymbol(stack) == stack.syms[1]

\* The symbol furthest from the top: the last of the stack.
BottomSymbol(stack) == stack.syms[Len(stack.syms)]

SymbolsUnify(a, b) == Unify(Stack(<<a>>, FALSE), Stack(<<b>>, FALSE)).ok

\* C11 as stated: a lookup with a symbol stack returns exactly the
\* root-anchored partial paths whose root-symbol precondition unifies with
\* the bottom symbol of that stack.
C11_BottomSymbol ==
    FoundWithStack =>
        db.results = {p \in RootAnchored :
                         SymbolsUnify(BottomSymbol(p.symbol_stack_precondition),
                                      BottomSymbol(db.symbol_stack.value))}

\* C11: after the minimal partial paths of a file have been added to a
\* Database, a lookup from the root with a symbol stack returns exactly the
\* root-anchored partial paths whose root-symbol precondition unifies with
\* the top (first) symbol of that stack, a lookup with no stack returns all
\* root-anchored paths, and for a file none of whose partial paths starts
\* at the root node a lookup returns no paths.
C11_TopSymbol ==
    /\ FoundWithStack =>
          db.results = {p \in RootAnchored :
                           SymbolsUnify(TopSymbol(p.symbol_stack_precondition),
                                        TopSymbol(db.symbol_stack.value))}
    /\ (db.pc = "found" /\ db.symbol_stack = None) => db.results = RootAnchored
    /\ (db.pc = "found" /\ RootAnchored = {}) => db.results = {}
    /\ db.pc = "found" => db.results \subseteq RootAnchored

\* The lookup of the tests: a stack of three symbols finds the paths of the
\* file that start at the root and consume its first symbol, and leaves out
\* a root-anchored path that consumes another symbol.
C11_Witness ==
    /\ FoundWithStack
    /\ db.symbol_stack.value.syms = <<"x", ".", "baz">>
    /\ db.results = {ImportX, ImportXScoped}
    /\ ImportY \in RootAnchored

(***************************************************************************)
(* Claims about the test command.                                          *)
(***************************************************************************)
\* run_test has returned for the current test path.
TestReturned == test_pc \in {"returned", "finished"} /\ test.ret # NoOutcome

\* The stitcher has been invoked in the given mode for the current test.
Stitched(mode) == \E i \in 1..Len(test.stitched) : test.stitched[i].mode = mode

\* C16: test paths with a component ending in .skip are excluded: for every
\* such path the test command builds no stack graph, runs no assertions,
\* contributes an empty TestResult to the total and does not make the run
\* fail.
C16_SkippedExcluded ==
    is_skipped(test.path) =>
        /\ test.built = 0
        /\ test.graph = <<>>
        /\ test.stitched = <<>>
        /\ ~test.assertions_run
        /\ TestReturned => test.ret = [kind |-> "Ok", value |-> NewTestResult]
        /\ test_pc = "finished" => test_run.outcome # test.ret

\* The output files the options ask for.
ConfiguredOutputs ==
    {kind \in {"graph", "paths", "visualization"} :
        \/ kind = "graph" /\ test_args.save_graph
        \/ kind = "paths" /\ test_args.save_paths
        \/ kind = "visualization" /\ test_args.save_visualization}

\* The current test ran its assertions and returned their result.
Executed == TestReturned /\ test.assertions_run /\ test.ret.kind = "Ok"

\* C17: the output mode controls when graph, paths and visualization files
\* are saved: with Always for every executed test, with OnFailure if and
\* only if the test has a failing assertion; a test that passes under
\* OnFailure writes no output file and computes no complete paths.
C17_OutputMode ==
    /\ (Executed /\ test_args.output_mode = "Always") =>
          /\ test.saved = ConfiguredOutputs
          /\ Stitched("complete") <=> (test_args.save_paths \/ test_args.save_visualization)
    /\ (Executed /\ test_args.output_mode = "OnFailure") =>
          /\ test.result.failure_count > 0 => test.saved = ConfiguredOutputs
          /\ test.result.failure_count = 0 => test.saved = {}
    /\ (test_args.output_mode = "OnFailure" /\ test.result.failure_count = 0) =>
          /\ test.saved = {}
          /\ test.outputs = <<>>
          /\ ~Stitched("complete")

\* Under OnFailure a test with a failing assertion has saved its three
\* output files, after complete paths were computed for them.
C17_Witness ==
    /\ Executed
    /\ test_args.output_mode = "OnFailure"
    /\ test.result.failure_count = 1
    /\ test.saved = {"graph", "paths", "visualization"}
    /\ Stitched("complete")
    /\ test_run.index = 1

\* The builtins of the language hold a file that the test graph holds.
DuplicateBuiltin ==
    /\ test.lc # None
    /\ test.fragments # <<>>
    /\ \E i \in 1..Len(test.lc.value.builtins) :
          has_file(test.fragments, test.lc.value.builtins[i])

\* Each file of the graph is in it once.
NoFileTwice(graph) == \A i, j \in 1..Len(graph) : graph[i] = graph[j] => i = j

\* C18: merging a graph that holds a file already present is reported as a
\* duplicate-file error and nothing is overwritten: when the test command
\* loads the builtins and add_from_graph reports a duplicate file, the test
\* fails with an error naming that file and neither the stitcher nor the
\* assertions run for it; with no_builtins the builtins are never merged.
C18_DuplicateBuiltin ==
    /\ NoFileTwice(test.graph)
    /\ (DuplicateBuiltin /\ ~test_args.no_builtins) =>
          /\ test_pc \notin {"build", "assertions", "output"}
          /\ test.built = 0
          /\ test.stitched = <<>>
          /\ ~test.assertions_run
          /\ TestReturned =>
                /\ test.ret.kind = "Err"
                /\ test.ret.error.message = "Duplicate builtin file"
                /\ has_file(test.fragments, test.ret.error.file)
                /\ has_file(test.lc.value.builtins, test.ret.error.file)
                /\ test.file_status.reports[Len(test.file_status.reports)].call = "failure"
          /\ test_pc = "finished" => test_run.outcome = test.ret
    /\ test_args.no_builtins =>
          /\ test.graph \in {<<>>, test.fragments}
          /\ TestReturned /\ test.ret.kind = "Err" =>
                test.ret.error.message # "Duplicate builtin file"

\* The second test of a run has failed with the duplicate builtin file.
C18_Witness ==
    /\ test_pc = "finished"
    /\ test_run.index = 1
    /\ test.ret.kind = "Err"
    /\ test.ret.error = Error("Duplicate builtin file", "a.py")
    /\ test_run.outcome = test.ret
    /\ test.fragments = <<"a.py", "b.py">>

\* The counts of the TestResults in results, added up.
RECURSIVE Total(_)
Total(results) ==
    IF results = <<>> THEN NewTestResult
    ELSE LET rest == Total(Tail(results))
         IN  [success_count |-> Head(results).success_count + rest.success_count,
              failure_count |-> Head(results).failure_count + rest.failure_count]

RunFinished == test_pc = "finished"

\* The test that ran last raised an error.
RaisedError == test.ret # NoOutcome /\ test.ret.kind = "Err"

\* C21: TestArgs::run takes the test paths one after the other, whatever the
\* assertions of the earlier ones did, and absorbs the TestResult of each
\* into total_result.  When no test raises an error every test path is
\* visited and run returns Err exactly when the failure counts of all the
\* test paths add up to more than 0.  An error raised by a test is what run
\* returns, with no further test path visited.
C21_RunLoop ==
    /\ Len(test_run.results) = test_run.index
    /\ test_run.index <= test_args.test_paths
    /\ test_run.total_result = Total(test_run.results)
    /\ RunFinished =>
          IF RaisedError
          THEN /\ test_run.outcome = test.ret
               /\ test_run.index < test_args.test_paths
          ELSE /\ test_run.index = test_args.test_paths
               /\ test_run.outcome.kind \in {"Ok", "Err"}
               /\ test_run.outcome.kind = "Err"
                     <=> Total(test_run.results).failure_count > 0

\* C21 witness: the first test had a failing assertion, the second one was
\* run all the same and had none, and run returned Err for the total.
C21_Witness ==
    /\ RunFinished
    /\ ~RaisedError
    /\ Len(test_run.results) = 2
    /\ test_run.results[1].failure_count > 0
    /\ test_run.results[2] = [success_count |-> 2, failure_count |-> 0]
    /\ test_run.total_result = [success_count |-> 3, failure_count |-> 1]
    /\ test_run.outcome.kind = "Err"

\* The positions in the reports of a file of the calls among the given ones.
ReportsOf(file_status, calls) ==
    {i \in 1..Len(file_status.reports) : file_status.reports[i].call \in calls}

\* processing() has been signalled for the test file.
ProcessingSignalled == ReportsOf(test.file_status, {"processing"}) # {}

TerminalReports == ReportsOf(test.file_status, {"success", "failure"})

\* C22: the status of a test file is reported by a protocol.  Once
\* processing() has been signalled for it, run_test is left, whether with a
\* result or with an error, with exactly one terminal status reported for the
\* file: success when no assertion failed, failure otherwise, and a single
\* failure when the graph could not be built; so assert_reported passes.  No
\* terminal status is reported twice or before processing().  A file that
\* is skipped or has no language configuration never enters the processing
\* state.
C22_ReportProtocol ==
    /\ Cardinality(ReportsOf(test.file_status, {"processing"})) <= 1
    /\ Cardinality(TerminalReports) <= 1
    /\ \A i \in TerminalReports : \E j \in 1..(i - 1) :
          test.file_status.reports[j].call = "processing"
    /\ (TestReturned /\ ProcessingSignalled) =>
          /\ Cardinality(TerminalReports) = 1
          /\ test.file_status.state = "reported"
          /\ assert_reported(test.file_status)
          /\ LET final == test.file_status.reports[Len(test.file_status.reports)]
             IN  /\ final.call \in {"success", "failure"}
                 /\ final.call = "success" <=>
                       (test.ret.kind = "Ok" /\ test.ret.value.failure_count = 0)
    /\ (is_skipped(test.path) \/ test.lc = None) =>
          /\ ~ProcessingSignalled
          /\ test.file_status.state # "processing"
          /\ TerminalReports = {}
    /\ test_run.outcome.kind # "panic"

\* C22 witness: the graph of a fragment could not be built; failure was
\* reported once, by run_test_inner, and the error left run_test with
\* nothing added to it.
C22_Witness ==
    /\ TestReturned
    /\ test.ret.kind = "Err"
    /\ test.ret.error.message = "Failed to build graph for"
    /\ test.file_status.reports =
          <<[call |-> "processing", message |-> ""],
            [call |-> "failure", message |-> "failed to build stack graph"]>>


====
